---- MODULE Spec2Model ----
(***************************************************************************)
(* Model of the Home component of frontend/app/page.tsx: the React state   *)
(* of the page, its event handlers (repository form, chat form, voice      *)
(* toggle), the callbacks of the speech recognizer, the resolutions of the *)
(* two backend requests and the delayed reply timer of the voice path.     *)
(*                                                                         *)
(* Strings that end up in the conversation are sequences of tokens, so     *)
(* that trim() and the welcome template literal are computed, not assumed. *)
(* A nullable value is None (= <<>>) or Some(x) (= <<x>>).                  *)
(***************************************************************************)
EXTENDS Integers, Sequences, FiniteSets, TLC

\* ---------------------------------------------------------------- bounds
MaxTurns == 2   \* accepted user turns (typed or spoken) in one run
MaxFairTurns == 1   \* the same, in the runs checked under fairness

\* ---------------------------------------------------------------- values
None == <<>>
Some(x) == <<x>>

SP == " "
Urls == {"", "u1", "u2"}
Texts == {<<>>, <<SP>>, <<SP, "a">>}
Replies == {<<"r1">>, <<"r2">>}
\* values a rejected backend promise may carry: an Error with a message, or
\* a value that is not an Error
Thrown == {[isError |-> TRUE, message |-> "e1"],
           [isError |-> FALSE, message |-> "x"]}
IngestResult == [content |-> "c", tree |-> "t"]

\* String.prototype.trim on a token sequence
RECURSIVE TrimLeft(_)
TrimLeft(s) == IF s # <<>> /\ Head(s) = SP THEN TrimLeft(Tail(s)) ELSE s
RECURSIVE TrimRight(_)
TrimRight(s) ==
  IF s # <<>> /\ s[Len(s)] = SP THEN TrimRight(SubSeq(s, 1, Len(s) - 1)) ELSE s
Trim(s) == TrimRight(TrimLeft(s))

UserMessage(text) == [role |-> "user", content |-> text]
AssistantMessage(text) == [role |-> "assistant", content |-> text]

\* the template literal of the welcome message
WelcomeText(url) ==
  <<"Repository ingested successfully! I'm ready to chat about the repository: ",
    url, ". What would you like to know?">>
\* the canned reply of the voice path
SimulatedResponse ==
  <<"This is a simulated response. In a real application, this would be the response from your AI backend.">>

ChatErrorMessage(thrown) ==
  IF thrown.isError THEN thrown.message ELSE "Failed to send message"
IngestErrorMessage(thrown) ==
  IF thrown.isError THEN thrown.message ELSE "An error occurred"

IsPrefix(s, t) == Len(s) <= Len(t) /\ SubSeq(t, 1, Len(s)) = s
RemoveAt(s, i) == SubSeq(s, 1, i - 1) \o SubSeq(s, i + 1, Len(s))

\* ---------------------------------------------------------------- state
VARIABLES
  repoUrl,       \* useState("")            the URL field
  repoContent,   \* useState(null)          None or Some(IngestResult)
  isLoading,     \* useState(false)
  error,         \* useState(null)          None or Some(message)
  messages,      \* useState([])            the conversation log
  input,         \* useState("")            the chat field
  isListening,   \* useState(false)
  recognition,   \* useState(null)          TRUE iff a recognizer was constructed
  synthesis,     \* useState(null)          TRUE iff window.speechSynthesis was stored
  recState,      \* the recognizer: "inactive", "capturing", "stopping", "ending"
  requests,      \* backend requests awaiting resolution, with their closures
  timers,        \* pending setTimeout callbacks of handleMessageSubmit
  spoken,        \* texts handed to synthesis.speak, in call order
  \* history variables
  lastEvent,     \* the operation that produced this state
  nTurns,        \* accepted user turns so far
  ingestedUrl,   \* None, or Some(url of the last successfully resolved ingestion)
  toggleRun      \* run of consecutive voice toggles started from isListening = FALSE

vars == <<repoUrl, repoContent, isLoading, error, messages, input, isListening,
          recognition, synthesis, recState, requests, timers, spoken,
          lastEvent, nTurns, ingestedUrl, toggleRun>>

\* the Session and the log: what the frame claims speak about
session == <<repoUrl, repoContent, isLoading, error, requests>>

HasRequest(kind) == \E i \in 1..Len(requests) : requests[i].kind = kind
NumRequests(kind) == Cardinality({i \in 1..Len(requests) : requests[i].kind = kind})

\* the Session status of the spec, read off the component state
status ==
  IF isLoading THEN (IF HasRequest("ingest") THEN "Ingesting" ELSE "ChatPending")
  ELSE IF repoContent # None THEN "Ready"
  ELSE IF error # None THEN "Error"
  ELSE "Idle"

\* closure of the first render, the one the recognizer callbacks keep
MountSynthesisFresh == synthesis
MountSynthesis == FALSE

\* speakMessage: the new value of spoken, syn being the synthesis of the closure
speakMessage(text, syn) == IF syn THEN Append(spoken, text) ELSE spoken

\* constraint validation of the URL field (required)
UrlFieldUnchecked(u) == TRUE
UrlFieldValid(u) == u # ""
\* the chat form is rendered only with repoContent; its controls are disabled by isLoading
ChatFormNeverDisabled == repoContent # None
ChatFormEnabled == repoContent # None /\ ~isLoading
RepoFormNeverDisabled == TRUE
RepoFormEnabled == ~isLoading

\* a backend request awaiting resolution: what was sent, the synthesis of the
\* closure that awaits it, and (history) the log it was issued from
Request(kind, url, message) ==
  [kind |-> kind, url |-> url, message |-> message, syn |-> synthesis,
   base |-> messages]
NoRequest ==
  [kind |-> "none", url |-> "", message |-> <<>>, syn |-> FALSE, base |-> <<>>]

\* history: the operation, its argument, the status it found and the request
\* it resolved
Event(op, arg, req) == [op |-> op, arg |-> arg, pre |-> status, req |-> req]
NoRun == [n |-> 0, snap |-> None]

Init ==
  /\ repoUrl = ""
  /\ repoContent = None
  /\ isLoading = FALSE
  /\ error = None
  /\ messages = <<>>
  /\ input = <<>>
  /\ isListening = FALSE
  /\ recognition \in BOOLEAN
  /\ synthesis \in BOOLEAN
  /\ recState = "inactive"
  /\ requests = <<>>
  /\ timers = 0
  /\ spoken = <<>>
  /\ lastEvent = [op |-> "init", arg |-> <<>>, pre |-> "Idle", req |-> NoRequest]
  /\ nTurns = 0
  /\ ingestedUrl = None
  /\ toggleRun = NoRun

\* ---------------------------------------------------------------- fields
\* onChange of the URL field
setRepoUrl(u) ==
  /\ RepoFormEnabled
  /\ u # repoUrl
  /\ repoUrl' = u
  /\ lastEvent' = Event("setRepoUrl", <<>>, NoRequest)
  /\ ingestedUrl' = ingestedUrl
  /\ toggleRun' = NoRun
  /\ UNCHANGED <<repoContent, isLoading, error, messages, input, isListening,
                 recognition, synthesis, recState, requests, timers, spoken,
                 nTurns>>

\* onChange of the chat field
setInput(t) ==
  /\ ChatFormEnabled
  /\ t # input
  /\ input' = t
  /\ lastEvent' = Event("setInput", <<>>, NoRequest)
  /\ ingestedUrl' = ingestedUrl
  /\ toggleRun' = NoRun
  /\ UNCHANGED <<repoUrl, repoContent, isLoading, error, messages, isListening,
                 recognition, synthesis, recState, requests, timers, spoken,
                 nTurns>>

\* ---------------------------------------------------------------- ingestion
\* setMessages([welcome]) of a resolved ingestion
SeedLogAppending(url) == Append(messages, AssistantMessage(WelcomeText(url)))
SeedLog(url) == <<AssistantMessage(WelcomeText(url))>>

handleRepoSubmit ==
  /\ RepoFormEnabled
  /\ UrlFieldValid(repoUrl)
  /\ isLoading' = TRUE
  /\ error' = None
  /\ requests' = Append(requests, Request("ingest", repoUrl, <<>>))
  /\ lastEvent' = Event("repoSubmit", <<>>, NoRequest)
  /\ ingestedUrl' = ingestedUrl
  /\ toggleRun' = NoRun
  /\ UNCHANGED <<repoUrl, repoContent, messages, input, isListening,
                 recognition, synthesis, recState, timers, spoken,
                 nTurns>>

\* a submit of the repository form with an empty URL field: constraint
\* validation (required) cancels it before the submit event, so
\* handleRepoSubmit does not run
repoFormInvalidSubmit ==
  /\ RepoFormEnabled
  /\ ~UrlFieldValid(repoUrl)
  /\ lastEvent' = Event("repoSubmitBlocked", <<>>, NoRequest)
  /\ ingestedUrl' = ingestedUrl
  /\ toggleRun' = NoRun
  /\ UNCHANGED <<repoUrl, repoContent, isLoading, error, messages, input,
                 isListening, recognition, synthesis, recState, requests,
                 timers, spoken, nTurns>>

IngestResolve(i) ==
  /\ i \in 1..Len(requests)
  /\ requests[i].kind = "ingest"
  /\ repoContent' = Some(IngestResult)
  /\ messages' = SeedLog(requests[i].url)
  /\ isLoading' = FALSE
  /\ requests' = RemoveAt(requests, i)
  /\ lastEvent' = Event("ingestOk", <<>>, requests[i])
  /\ ingestedUrl' = Some(requests[i].url)
  /\ toggleRun' = NoRun
  /\ UNCHANGED <<repoUrl, error, input, isListening, recognition, synthesis,
                 recState, timers, spoken, nTurns>>

IngestReject(i, thrown) ==
  /\ i \in 1..Len(requests)
  /\ requests[i].kind = "ingest"
  /\ error' = Some(IngestErrorMessage(thrown))
  /\ repoContent' = None
  /\ isLoading' = FALSE
  /\ requests' = RemoveAt(requests, i)
  /\ lastEvent' = Event("ingestFail", <<>>, requests[i])
  /\ ingestedUrl' = ingestedUrl
  /\ toggleRun' = NoRun
  /\ UNCHANGED <<repoUrl, messages, input, isListening, recognition, synthesis,
                 recState, timers, spoken, nTurns>>

\* ---------------------------------------------------------------- typed chat
handleChatSubmit ==
  /\ ChatFormEnabled
  /\ lastEvent' = Event("chatSubmit", input, NoRequest)
  /\ ingestedUrl' = ingestedUrl
  /\ toggleRun' = NoRun
  /\ IF Trim(input) = <<>> \/ repoUrl = ""
     THEN UNCHANGED <<repoUrl, repoContent, isLoading, error, messages, input,
                      isListening, recognition, synthesis, recState, requests,
                      timers, spoken, nTurns>>
     ELSE /\ nTurns < MaxTurns
          /\ messages' = Append(messages, UserMessage(input))
          /\ input' = <<>>
          /\ isLoading' = TRUE
          /\ requests' = Append(requests, Request("ask", repoUrl, input))
          /\ nTurns' = nTurns + 1
          /\ UNCHANGED <<repoUrl, repoContent, error, isListening, recognition,
                         synthesis, recState, timers, spoken>>

ChatResolve(i, reply) ==
  /\ i \in 1..Len(requests)
  /\ requests[i].kind = "ask"
  /\ messages' = Append(messages, AssistantMessage(reply))
  /\ spoken' = speakMessage(reply, requests[i].syn)
  /\ isLoading' = FALSE
  /\ requests' = RemoveAt(requests, i)
  /\ lastEvent' = Event("askOk", reply, requests[i])
  /\ ingestedUrl' = ingestedUrl
  /\ toggleRun' = NoRun
  /\ UNCHANGED <<repoUrl, repoContent, error, input, isListening, recognition,
                 synthesis, recState, timers, nTurns>>

\* (variant without the finally block)
ChatRejectNoFinally(i, thrown) ==
  /\ i \in 1..Len(requests)
  /\ requests[i].kind = "ask"
  /\ error' = Some(ChatErrorMessage(thrown))
  /\ requests' = RemoveAt(requests, i)
  /\ lastEvent' = Event("askFail", <<>>, requests[i])
  /\ ingestedUrl' = ingestedUrl
  /\ toggleRun' = NoRun
  /\ UNCHANGED <<repoUrl, repoContent, isLoading, messages, input, isListening,
                 recognition, synthesis, recState, timers, spoken, nTurns>>

ChatReject(i, thrown) ==
  /\ i \in 1..Len(requests)
  /\ requests[i].kind = "ask"
  /\ error' = Some(ChatErrorMessage(thrown))
  /\ isLoading' = FALSE
  /\ requests' = RemoveAt(requests, i)
  /\ lastEvent' = Event("askFail", <<>>, requests[i])
  /\ ingestedUrl' = ingestedUrl
  /\ toggleRun' = NoRun
  /\ UNCHANGED <<repoUrl, repoContent, messages, input, isListening, recognition,
                 synthesis, recState, timers, spoken, nTurns>>

\* ---------------------------------------------------------------- voice
\* SpeechRecognition.start(): throws InvalidStateError unless the recognizer is inactive
StartThrows == recState # "inactive"
\* SpeechRecognition.stop(): ends a running capture, otherwise ignored
AfterStop == IF recState = "capturing" THEN "stopping" ELSE recState

\* the call toggleListening makes on the recognizer, if there is one
RecognizerCall ==
  IF ~recognition THEN <<>> ELSE IF isListening THEN <<"stop">> ELSE <<"start">>

\* (variant that forgets to clear the flag when it stops the capture)
toggleListeningKeepsFlag ==
  /\ repoContent # None
  /\ lastEvent' = Event("toggle", RecognizerCall, NoRequest)
  /\ ingestedUrl' = ingestedUrl
  /\ toggleRun' = IF toggleRun.n = 1 THEN [n |-> 2, snap |-> toggleRun.snap]
                  ELSE IF ~isListening
                       THEN [n |-> 1, snap |-> Some(<<messages, session>>)]
                       ELSE NoRun
  /\ IF isListening
     THEN /\ recState' = IF recognition THEN AfterStop ELSE recState
          /\ isListening' = isListening
     ELSE IF recognition /\ StartThrows
          THEN UNCHANGED <<recState, isListening>>
          ELSE /\ recState' = IF recognition THEN "capturing" ELSE recState
               /\ isListening' = TRUE
  /\ UNCHANGED <<repoUrl, repoContent, isLoading, error, messages, input,
                 recognition, synthesis, requests, timers, spoken, nTurns>>

\* the toggle button belongs to the chat form (rendered only with repoContent)
\* and is not disabled by isLoading
toggleListening ==
  /\ repoContent # None
  /\ lastEvent' = Event("toggle", RecognizerCall, NoRequest)
  /\ ingestedUrl' = ingestedUrl
  /\ toggleRun' = IF toggleRun.n = 1 THEN [n |-> 2, snap |-> toggleRun.snap]
                  ELSE IF ~isListening
                       THEN [n |-> 1, snap |-> Some(<<messages, session>>)]
                       ELSE NoRun
  /\ IF isListening
     THEN /\ recState' = IF recognition THEN AfterStop ELSE recState
          /\ isListening' = FALSE
     ELSE IF recognition /\ StartThrows
          THEN UNCHANGED <<recState, isListening>>
          ELSE /\ recState' = IF recognition THEN "capturing" ELSE recState
               /\ isListening' = TRUE
  /\ UNCHANGED <<repoUrl, repoContent, isLoading, error, messages, input,
                 recognition, synthesis, requests, timers, spoken,
                 nTurns>>

\* (variant that puts the turn in front of the log)
handleMessageSubmitPrepending(message) ==
  IF Trim(message) = <<>>
  THEN <<messages, message, timers>>
  ELSE <<<<UserMessage(message)>> \o messages, <<>>, timers + 1>>

\* handleMessageSubmit as called by recognitionInstance.onresult: the new
\* values of <<messages, input, timers>>, input already holding the transcript
handleMessageSubmit(message) ==
  IF Trim(message) = <<>>
  THEN <<messages, message, timers>>
  ELSE <<Append(messages, UserMessage(message)), <<>>, timers + 1>>

\* recognitionInstance.onresult (single-shot: the capture ends after one result)
onresult(transcript) ==
  /\ recState \in {"capturing", "stopping"}
  /\ Trim(transcript) # <<>> => nTurns < MaxTurns
  /\ messages' = handleMessageSubmit(transcript)[1]
  /\ input' = handleMessageSubmit(transcript)[2]
  /\ timers' = handleMessageSubmit(transcript)[3]
  /\ recState' = "ending"
  /\ nTurns' = IF Trim(transcript) # <<>> THEN nTurns + 1 ELSE nTurns
  /\ lastEvent' = Event("voiceResult", transcript, NoRequest)
  /\ ingestedUrl' = ingestedUrl
  /\ toggleRun' = NoRun
  /\ UNCHANGED <<repoUrl, repoContent, isLoading, error, isListening, recognition,
                 synthesis, requests, spoken>>

\* the setTimeout callback of handleMessageSubmit; its speakMessage is the one
\* of the render that created the recognizer callbacks
SimulatedReply ==
  /\ timers > 0
  /\ messages' = Append(messages, AssistantMessage(SimulatedResponse))
  /\ spoken' = speakMessage(SimulatedResponse, MountSynthesis)
  /\ timers' = timers - 1
  /\ lastEvent' = Event("simulatedReply", <<>>, NoRequest)
  /\ ingestedUrl' = ingestedUrl
  /\ toggleRun' = NoRun
  /\ UNCHANGED <<repoUrl, repoContent, isLoading, error, input, isListening,
                 recognition, synthesis, recState, requests, nTurns>>

\* (variant that shows the recognition error in the banner)
onerrorSurfaced ==
  /\ recState \in {"capturing", "stopping"}
  /\ isListening' = FALSE
  /\ error' = Some("recognition error")
  /\ recState' = "ending"
  /\ lastEvent' = Event("voiceError", IF isListening THEN <<"listening">> ELSE <<>>,
                        NoRequest)
  /\ ingestedUrl' = ingestedUrl
  /\ toggleRun' = NoRun
  /\ UNCHANGED <<repoUrl, repoContent, isLoading, messages, input,
                 recognition, synthesis, requests, timers, spoken, nTurns>>

\* recognitionInstance.onerror
onerror ==
  /\ recState \in {"capturing", "stopping"}
  /\ isListening' = FALSE
  /\ recState' = "ending"
  /\ lastEvent' = Event("voiceError", IF isListening THEN <<"listening">> ELSE <<>>,
                        NoRequest)
  /\ ingestedUrl' = ingestedUrl
  /\ toggleRun' = NoRun
  /\ UNCHANGED <<repoUrl, repoContent, isLoading, error, messages, input,
                 recognition, synthesis, requests, timers, spoken, nTurns>>

\* recognitionInstance.onend
onend ==
  /\ recState \in {"capturing", "stopping", "ending"}
  /\ isListening' = FALSE
  /\ recState' = "inactive"
  /\ lastEvent' = Event("voiceEnd", <<>>, NoRequest)
  /\ ingestedUrl' = ingestedUrl
  /\ toggleRun' = NoRun
  /\ UNCHANGED <<repoUrl, repoContent, isLoading, error, messages, input,
                 recognition, synthesis, requests, timers, spoken, nTurns>>

\* ---------------------------------------------------------------- system
Next ==
  \/ \E u \in Urls : setRepoUrl(u)
  \/ \E t \in Texts : setInput(t)
  \/ handleRepoSubmit
  \/ repoFormInvalidSubmit
  \/ \E i \in 1..Len(requests) : IngestResolve(i)
  \/ \E i \in 1..Len(requests), th \in Thrown : IngestReject(i, th)
  \/ handleChatSubmit
  \/ \E i \in 1..Len(requests), r \in Replies : ChatResolve(i, r)
  \/ \E i \in 1..Len(requests), th \in Thrown : ChatReject(i, th)
  \/ toggleListening
  \/ \E t \in Texts : onresult(t)
  \/ SimulatedReply
  \/ onerror
  \/ onend

Spec == Init /\ [][Next]_vars

\* the settling of an awaited backend request, either way
Resolution ==
  \E i \in 1..Len(requests) :
    \/ IngestResolve(i)
    \/ \E th \in Thrown : IngestReject(i, th)
    \/ \E r \in Replies : ChatResolve(i, r)
    \/ \E th \in Thrown : ChatReject(i, th)

\* the program under the assumption that every issued request settles
FairNext ==
  \/ \E u \in Urls : setRepoUrl(u)
  \/ \E t \in Texts : setInput(t)
  \/ handleRepoSubmit
  \/ repoFormInvalidSubmit
  \/ \E i \in 1..Len(requests) : IngestResolve(i)
  \/ \E i \in 1..Len(requests), th \in Thrown : IngestReject(i, th)
  \/ handleChatSubmit /\ nTurns' <= MaxFairTurns
  \/ \E i \in 1..Len(requests), r \in Replies : ChatResolve(i, r)
  \/ \E i \in 1..Len(requests), th \in Thrown : ChatReject(i, th)
  \/ toggleListening
  \/ \E t \in Texts : onresult(t) /\ nTurns' <= MaxFairTurns
  \/ SimulatedReply
  \/ onerror
  \/ onend
FairSpec == Init /\ [][FairNext]_vars /\ WF_vars(Resolution)

\* ================================================================ claims

\* C1 (as claimed): a chat submission, typed or spoken, that arrives while the
\* status is not Ready changes neither the Session (status, repoUrl,
\* errorMessage) nor the log and issues no backend request.
C1_NotReadyNoEffect ==
  [][(lastEvent'.op \in {"chatSubmit", "voiceResult"} /\ status # "Ready")
       => UNCHANGED <<messages, repoUrl, error, requests, status>>]_vars

\* C2 (as claimed): a non-blank transcript emitted in Ready (with a repository
\* URL in the field, as a typed submit needs) has the effects of a typed
\* submit: User turn appended, status ChatPending, one ask(t, repoUrl) issued.
C2_VoiceAsTyped ==
  (lastEvent.op = "voiceResult" /\ lastEvent.pre = "Ready"
     /\ Trim(lastEvent.arg) # <<>> /\ repoUrl # "")
    => /\ status = "ChatPending"
       /\ messages # <<>>
       /\ messages[Len(messages)] = UserMessage(lastEvent.arg)
       /\ NumRequests("ask") = 1
       /\ \E i \in 1..Len(requests) :
            /\ requests[i].kind = "ask"
            /\ requests[i].message = lastEvent.arg
            /\ requests[i].url = repoUrl

\* C3 (as claimed): the log never shrinks and never reorders: every step
\* leaves the earlier log as a prefix of the later log.
C3_LogOnlyGrows == [][IsPrefix(messages, messages')]_vars

\* C3 (amended): every step other than the successful resolution of an ingest
\* request leaves the earlier log as a prefix of the later log; a successful
\* ingest resolution replaces the log by the one-element welcome log.
C3_LogGrowsExceptReseed ==
  [][\/ IsPrefix(messages, messages')
     \/ /\ lastEvent'.op = "ingestOk"
        /\ messages' = <<AssistantMessage(WelcomeText(lastEvent'.req.url))>>]_vars

\* C3 witness: an ingestion issued from a log with chat turns has resolved and
\* reseeded the log.
C3_Witness ==
  /\ lastEvent.op = "ingestOk"
  /\ Len(lastEvent.req.base) > 1
  /\ Len(messages) = 1

\* C4: when an ingest(url) request resolves successfully the status is Ready,
\* errorMessage is null and the log is exactly [Assistant(welcome text
\* containing url)].
C4_IngestSuccess ==
  lastEvent.op = "ingestOk"
    => /\ status = "Ready"
       /\ error = None
       /\ Len(messages) = 1
       /\ messages[1].role = "assistant"
       /\ messages[1].content = WelcomeText(lastEvent.req.url)
       /\ \E k \in 1..Len(messages[1].content) :
            messages[1].content[k] = lastEvent.req.url

\* C4 witness: a re-ingestion of another URL, issued from a log with chat
\* turns, has resolved.
C4_Witness ==
  /\ lastEvent.op = "ingestOk"
  /\ Len(lastEvent.req.base) > 1
  /\ lastEvent.req.base[1].content # WelcomeText(lastEvent.req.url)

\* C5 (as claimed): when the ask of an accepted typed submit(text) succeeds
\* with reply r, the log has grown since acceptance by exactly User(text),
\* Assistant(r), and the status is Ready again.
C5_AskSuccessGrowsByTwo ==
  lastEvent.op = "askOk"
    => /\ messages = lastEvent.req.base
                       \o <<UserMessage(lastEvent.req.message),
                            AssistantMessage(lastEvent.arg)>>
       /\ status = "Ready"

C7_AskFailureGrowsByOne ==
  lastEvent.op = "askFail"
    => /\ messages = Append(lastEvent.req.base, UserMessage(lastEvent.req.message))
       /\ status = "Ready"
       /\ error # None

\* C8: at most one ingest request and at most one ask request are outstanding;
\* a request is outstanding only while the busy flag is set.
C8_OneRequestPerKind ==
  /\ NumRequests("ingest") <= 1
  /\ NumRequests("ask") <= 1
  /\ requests # <<>> => isLoading

\* C8 witness: a second chat request was issued after the first one resolved
\* and is the only one outstanding.
C8_Witness ==
  /\ status = "ChatPending"
  /\ lastEvent.op = "chatSubmit"
  /\ nTurns = 2
  /\ NumRequests("ask") = 1

\* C9: two consecutive voice toggles from ListeningState Idle leave the log
\* and the Session as they were and end with ListeningState Idle.
C9_ToggleOnOff ==
  toggleRun.n = 2
    => /\ <<messages, session>> = toggleRun.snap[1]
       /\ ~isListening

\* C9 witness: a capture was started and then stopped by the second toggle.
C9_Witness ==
  /\ toggleRun.n = 2
  /\ recognition
  /\ recState = "stopping"

\* C10 (as claimed): when an ask request resolves successfully errorMessage
\* is null.
C10_AskSuccessClearsError == lastEvent.op = "askOk" => error = None

\* C11 (as claimed): a failed ingest leaves status Error with the repository
\* content and repoUrl discarded and errorMessage a string; in Error no chat
\* submission, typed or spoken, is accepted; the URL form can be submitted
\* again from Error and then enters Ingesting.
C11_IngestFailure ==
  [][/\ lastEvent'.op = "ingestFail"
          => /\ status' = "Error"
             /\ repoContent' = None
             /\ repoUrl' = ""
             /\ error' # None
     /\ (status = "Error" /\ lastEvent'.op \in {"chatSubmit", "voiceResult"})
          => UNCHANGED <<messages, requests, timers>>
     /\ (status = "Error" /\ lastEvent'.op = "repoSubmit")
          => status' = "Ingesting"]_vars

\* C12 (as claimed): with a non-empty URL in the field the repository form
\* can be submitted in every session state, busy ones included.
C12_SubmitInEveryState == repoUrl # "" => ENABLED handleRepoSubmit

\* C12 (amended): a non-empty URL can be submitted exactly in the states that
\* are not busy (Idle, Ready, Error); the submission moves the status to
\* Ingesting, finds no request outstanding and leaves exactly its own request
\* outstanding, so no request is ever superseded.
C12_SubmitWhenNotBusy ==
  [][/\ (repoUrl # "" /\ status \in {"Idle", "Ready", "Error"})
          => ENABLED handleRepoSubmit
     /\ status \in {"Ingesting", "ChatPending"} => ~ENABLED handleRepoSubmit
     /\ lastEvent'.op = "repoSubmit"
          => /\ status \in {"Idle", "Ready", "Error"}
             /\ status' = "Ingesting"
             /\ requests = <<>>
             /\ Len(requests') = 1
             /\ requests'[1].kind = "ingest"
             /\ requests'[1].url = repoUrl]_vars

\* C12 witness: a new URL was submitted from Ready, over a completed
\* ingestion of another URL.
C12_Witness ==
  /\ lastEvent.op = "repoSubmit"
  /\ lastEvent.pre = "Ready"
  /\ status = "Ingesting"
  /\ ingestedUrl # None
  /\ ingestedUrl # Some(repoUrl)

\* C13: a submit of the repository form with an empty url changes nothing:
\* the status does not become Ingesting, no request is issued, the Session
\* and the log stay as they were.
C13_EmptyUrlRejected ==
  [][(repoUrl = "" /\ lastEvent'.op \in {"repoSubmit", "repoSubmitBlocked"})
       => /\ UNCHANGED <<messages, session, status>>
          /\ status' # "Ingesting"]_vars

\* C13 witness: after a completed ingestion the URL field was emptied and the
\* form submitted.
C13_Witness ==
  /\ lastEvent.op = "repoSubmitBlocked"
  /\ lastEvent.pre = "Ready"
  /\ repoUrl = ""

\* C14 (as claimed): a toggle while the recognizer has a capture that has not
\* ended calls stop(), never start().
C14_NoStartWhileActive ==
  [][(lastEvent'.op = "toggle" /\ recState # "inactive")
       => lastEvent'.arg = <<"stop">>]_vars

\* C15: a recognition error while Listening sets ListeningState to Idle, ends
\* the capture without a transcript, and leaves the log, the Session status,
\* errorMessage, the outstanding requests and the pending replies unchanged.
C15_RecognitionError ==
  [][lastEvent'.op = "voiceError"
       => /\ ~isListening'
          /\ recState' = "ending"
          /\ \A t \in Texts : ~(ENABLED onresult(t))'
          /\ UNCHANGED <<messages, status, error, session, timers, input>>]_vars

\* C15 witness: a recognition error arrived while Listening and a chat
\* request was outstanding.
C15_Witness ==
  /\ lastEvent.op = "voiceError"
  /\ lastEvent.arg = <<"listening">>
  /\ lastEvent.pre = "ChatPending"

\* C16 (as claimed): without a recognizer ListeningState stays Idle.
C16_InertWithoutRecognizer == ~recognition => ~isListening

Busy == status \in {"Ingesting", "ChatPending"}

\* C17: if every issued request eventually settles, every busy state
\* (Ingesting, ChatPending) is eventually followed by Ready or Error; and only
\* the settling of a request ends a busy state (no timeout, no cancellation).
C17_BusyEndsByResolution ==
  /\ Busy ~> (status \in {"Ready", "Error"})
  /\ [][(Busy /\ ~Busy')
          => lastEvent'.op \in {"ingestOk", "ingestFail", "askOk", "askFail"}]_vars

\* C17 witness: a chat request failed while a capture was running and the
\* status is Ready again.
C17_Witness ==
  /\ lastEvent.op = "askFail"
  /\ lastEvent.pre = "ChatPending"
  /\ status = "Ready"
  /\ recState = "capturing"

\* C18: the busy flag isLoading is set in exactly the states where a backend
\* request is outstanding, and an ingest request and an ask request are never
\* outstanding together.
C18_BusyFlagIsOutstanding ==
  /\ isLoading <=> requests # <<>>
  /\ ~(HasRequest("ingest") /\ HasRequest("ask"))

\* C18 witness: after two chat turns a re-ingestion is the only request
\* outstanding.
C18_Witness ==
  /\ isLoading
  /\ nTurns = 2
  /\ Len(requests) = 1
  /\ requests[1].kind = "ingest"

\* C19 (as claimed): every outstanding ask request carries the url of the
\* most recent successful ingestion.
C19_AskCarriesIngestedUrl ==
  \A i \in 1..Len(requests) :
    requests[i].kind = "ask" => ingestedUrl = Some(requests[i].url)

\* number of turns of a role among the entries from..to of the log
Turns(role, from, to) ==
  Cardinality({k \in from..to : messages[k].role = role})

\* C20 (as claimed): in every prefix of the log, the turns after the leading
\* welcome turn hold at least as many User turns as Assistant turns.
C20_RepliesFollowTurns ==
  \A n \in 2..Len(messages) :
    Turns("user", 2, n) >= Turns("assistant", 2, n)
====
